---- MODULE Spec2Model ----
(***************************************************************************)
(* Event-Paradise: the notification coordinator (NotificationService in    *)
(* utils/notification_service.py), its socket handlers, and the web        *)
(* request handlers of app.py that call it.                                *)
(*                                                                         *)
(* Spec      the coordinator's handlers, each run to completion            *)
(* SpecRace  the same handlers run by threads, one statement per step      *)
(* SpecWeb   the request handlers of app.py with the services they call    *)
(* SpecSched the scheduler of utils/scheduler_service.py firing its jobs   *)
(* SpecJobs  the bodies of the scheduled jobs, run over a filled store     *)
(***************************************************************************)
EXTENDS Integers, Sequences, FiniteSets, Bags, TLC

\* ------------------------------------------------------------------ bounds
NumUsers      == 2      \* registered users (User.id)
MaxNotifs     == 3      \* send_notification calls
MaxSids       == 2      \* socket sessions opened (request.sid values)
MaxBroadcasts == 1      \* send_broadcast_notification calls
MaxFaults     == 1      \* socketio.emit calls that raise
MaxCalls      == 4      \* notify, connect and broadcast calls together (Spec)
MaxEvents     == 1      \* Event rows (SpecWeb)
MaxGuests     == 1      \* Guest rows (SpecWeb)
MaxPayments   == 1      \* Payment rows (SpecWeb)
WebNotifs     == 2      \* requests that reach their notify call (SpecWeb)
WebSids       == 1      \* socket sessions opened in SpecWeb
MaxRequests   == 3      \* requests and connections handled in SpecWeb
NumThreads    == 2      \* threads running coordinator code at the same time (SpecRace)
RaceNotifs    == 2      \* send_notification calls in SpecRace
RaceSids      == 2      \* socket sessions opened in SpecRace
MaxTriggers   == 3      \* trigger times that arrive (SpecSched)
SchedNotifs   == 1      \* send_notification calls in SpecSched
MaxRows       == 2      \* rows of the store the jobs run over (SpecJobs)
MaxRuns       == 2      \* runs of the job SpecJobs runs
RowRequests   == 1      \* requests handled in SpecRows
LiveCalls     == 3      \* calls and cleanup runs made in SpecLive
TicketRequests == 2     \* manage_guests requests started in SpecTickets

Users == 1..NumUsers
Anon  == 0              \* current_user.is_authenticated is False
Roles == {"admin", "user"}
NoRole == "none"        \* user_role=None

\* User.role (app.py:65): user 1 is the admin, every other user has the default role
RoleOf(u) == IF u = 1 THEN "admin" ELSE "user"

VARIABLES
    connected_users,     \* dict user_id -> sid, in insertion order: Seq of [k, v]
    user_notifications,  \* dict user_id -> list of notifications: [present, items] per user
    sessions,            \* the open socket sessions: set of [sid, user] (user = Anon when not logged in)
    emits,               \* the socketio.emit calls of the last call, in order
    delivered,           \* bag of every 'notification' emit made so far
    faults,              \* number of emits that raised so far
    stored,              \* every notification send_notification has appended to a queue
    nextId,              \* number of the next notification built by send_notification
    nextSid,             \* the request.sid of the next connection
    nextBroadcast,       \* number of the next broadcast payload
    ret,                 \* the last finished call: [op, user, role, value, count, payload]
    threads,             \* SpecRace: per thread, the handler it runs, its position and locals
    events,              \* SpecWeb: the Event rows
    guests,              \* SpecWeb: the Guest rows
    payments,            \* SpecWeb: the Payment rows
    response,            \* SpecWeb: the last request and the response it got
    sent,                \* SpecWeb: the email, SMS and notify calls of the last request
    scheduler,           \* the BackgroundScheduler: [running, jobs, executing, fired]
    store,               \* the rows the jobs read: [events, guests, vendors, feedback]
    jobrun               \* the last finished run of a job: what it read, sent and deleted

vars == <<connected_users, user_notifications, sessions, emits, delivered, faults, stored,
          nextId, nextSid, nextBroadcast, ret, threads,
          events, guests, payments, response, sent, scheduler, store, jobrun>>

schedVars == <<scheduler, store, jobrun>>
webVars == <<events, guests, payments, response, sent, schedVars>>

\* ------------------------------------------------------- ordered dictionary
\* connected_users is a Python dict: keys keep their insertion order, which is
\* the order send_broadcast_notification iterates them in.
Keys(d) == {d[i].k : i \in 1..Len(d)}
Has(d, key) == key \in Keys(d)
IndexOf(d, key) == CHOOSE i \in 1..Len(d) : d[i].k = key
Get(d, key) == d[IndexOf(d, key)].v
\* d[key] = val: an existing key keeps its position, a new key goes last
Put(d, key, val) ==
    IF Has(d, key)
    THEN [d EXCEPT ![IndexOf(d, key)] = [k |-> key, v |-> val]]
    ELSE Append(d, [k |-> key, v |-> val])
\* del d[key]
Del(d, key) ==
    LET i == IndexOf(d, key)
    IN  SubSeq(d, 1, i - 1) \o SubSeq(d, i + 1, Len(d))

\* ------------------------------------------------------------ notifications
\* the notification_data dict a send_*_notification method hands to
\* send_notification (lines 191-205, 239-251, 273-284)
NotificationData(type, subtype) ==
    [type |-> type, subtype |-> subtype, title |-> <<"title", subtype>>,
     message |-> <<"message", subtype>>, data |-> <<"data", subtype>>]

\* lines 113-122: the dict send_notification builds from notification_data;
\* the k-th one is built at time k ('id' is notif_<timestamp>)
BuildNotification(k, user_id, notification_data) ==
    [id |-> <<"notif", k>>, user_id |-> user_id, type |-> notification_data.type,
     title |-> notification_data.title, message |-> notification_data.message,
     data |-> notification_data.data, created_at |-> k, read |-> FALSE]

\* the notification of the k-th call, made by send_guest_notification(.., 'guest_registered')
Notification(k, u) == BuildNotification(k, u, NotificationData("guest", "guest_registered"))
\* the dict built by send_broadcast_notification; 'id' is broadcast_<timestamp>
BroadcastPayload(b) == [id |-> <<"broadcast", b>>, broadcast |-> TRUE]

\* user_id in self.user_notifications
HasPending(un, u) == un[u].present
\* self.user_notifications.get(user_id, [])
PendingOf(un, u) == IF un[u].present THEN un[u].items ELSE <<>>
\* self.user_notifications[user_id] = val
SetPending(un, u, val) == [un EXCEPT ![u] = [present |-> TRUE, items |-> val]]

\* room is the sid of an open session
Live(sess, room) == \E s \in sess : s.sid = room

\* the record of one socketio.emit(ev, payload, room=room) call; ok = FALSE when it raised
Emit(ev, payload, room, by, ok, live) ==
    [ev |-> ev, payload |-> payload, room |-> room, by |-> by, ok |-> ok, live |-> live]

\* the bag of the 'notification' emits among es
RECURSIVE NotificationBag(_)
NotificationBag(es) ==
    IF es = <<>> THEN EmptyBag
    ELSE (IF Head(es).ev = "notification" THEN SetToBag({Head(es)}) ELSE EmptyBag)
         (+) NotificationBag(Tail(es))

\* the emits among es that raised
Raised(es) == Cardinality({i \in 1..Len(es) : ~es[i].ok})

\* the bookkeeping of one call that made the emits es
Record(es) ==
    /\ emits' = es
    /\ delivered' = delivered (+) NotificationBag(es)
    /\ faults' = faults + Raised(es)
    /\ faults' <= MaxFaults

\* room of an emit without room=: every client
AllRooms == 0

\* the payload field of a call that built no notification
NoPayload == [id |-> <<"none", 0>>]

\* what a finished call returned: value is "True", "False", "None" or "raised"
Ret(op, u, role, value, count, payload) ==
    [op |-> op, user |-> u, role |-> role, value |-> value, count |-> count,
     payload |-> payload]

Threads == 1..NumThreads

\* a request without a body the handler reads
NoArg == "none"

\* the response field before any request was handled
NoResponse == [seq |-> 0, handler |-> "none", user |-> Anon, arg |-> NoArg, status |-> "none",
               wrote |-> FALSE, dbfail |-> FALSE, row |-> [id |-> 0]]

\* a thread that runs no handler
Idle == [op |-> "idle", pc |-> "idle", user |-> Anon, sid |-> 0, n |-> NoPayload,
         i |-> 0, att |-> FALSE, snap |-> <<>>]

\* the ids of the jobs _register_jobs adds (scheduler_service.py:54-123)
JobIds == {"daily_event_reminders", "vendor_reminders", "feedback_requests",
           "daily_reports", "weekly_reports", "data_cleanup", "health_check",
           "notification_cleanup"}

\* the scheduler after init_app: started, the eight jobs added, none executing
NewScheduler == [running |-> TRUE, jobs |-> JobIds,
                 executing |-> [j \in JobIds |-> 0], fired |-> 0]

\* a database without rows; noemail: the admin users whose email is empty
EmptyStore == [events |-> {}, guests |-> {}, vendors |-> {}, feedback |-> {},
               noemail |-> {}]

\* the jobrun field before any job has run
NoRun == [seq |-> 0, job |-> "none", now |-> 0, outcome |-> "none", value |-> <<>>, msgs |-> <<>>,
          deleted |-> {}, count |-> 0, probe |-> "none", window |-> [lo |-> 0, hi |-> 0],
          before |-> EmptyStore]

InitCore ==
    /\ connected_users = <<>>
    /\ user_notifications = [u \in Users |-> [present |-> FALSE, items |-> <<>>]]
    /\ sessions = {}
    /\ emits = <<>>
    /\ delivered = EmptyBag
    /\ faults = 0
    /\ stored = {}
    /\ nextId = 1
    /\ nextSid = 1
    /\ nextBroadcast = 1
    /\ ret = Ret("init", Anon, NoRole, "None", 0, NoPayload)
    /\ threads = [t \in Threads |-> Idle]
    /\ response = NoResponse
    /\ sent = <<>>
    /\ scheduler = NewScheduler
    /\ jobrun = NoRun

\* db.create_all() on a new database: the tables are empty
InitBase ==
    /\ InitCore
    /\ events = {}
    /\ guests = {}
    /\ payments = {}

Init ==
    /\ InitBase
    /\ store = EmptyStore

\* --------------------------------------------------------- send_notification
\* lines 131-134: the user is offline, the notification is stored
StorePending(un, u, n) ==
    SetPending(un, u, Append(PendingOf(un, u), n))

\* line 129: the value returned after the realtime emit
NotifyReturnSent == "True"
\* line 136: the value returned after storing the notification
NotifyReturnStored == "True"
\* the call without its try/except: the exception of the emit reaches the caller
NotifyReturnExcept_Propagates == "raised"

\* line 140: the value the except branch returns
NotifyReturnExcept == "False"

\* line 127: the emit of the connected branch
NotifyEmits(cu, sess, u, n, ok) ==
    IF Has(cu, u)
    THEN <<Emit("notification", n, Get(cu, u), "notify", ok, Live(sess, Get(cu, u)))>>
    ELSE <<>>

\* the queues after a call that stores the notification whether or not the
\* user is connected
NotifyQueue_AlwaysStore(un, cu, u, n) == StorePending(un, u, n)

\* lines 125-134: the queues after the call
NotifyQueue(un, cu, u, n) ==
    IF Has(cu, u) THEN un ELSE StorePending(un, u, n)

\* lines 129, 136, 140: the value the call returns
NotifyReturn(cu, u, ok) ==
    IF Has(cu, u)
    THEN (IF ok THEN NotifyReturnSent ELSE NotifyReturnExcept)
    ELSE NotifyReturnStored

\* what one send_notification(user_id, ...) call does; ok = FALSE: socketio.emit raises
Notify(u, ok) ==
    /\ nextId <= MaxNotifs
    /\ Has(connected_users, u) \/ ok        \* ok is read in the connected branch only
    /\ LET n == Notification(nextId, u)
       IN  /\ Record(NotifyEmits(connected_users, sessions, u, n, ok))
           /\ user_notifications' = NotifyQueue(user_notifications, connected_users, u, n)
           /\ stored' = IF user_notifications' # user_notifications
                        THEN stored \cup {n} ELSE stored
           /\ ret' = Ret("notify", u, NoRole, NotifyReturn(connected_users, u, ok), 0, n)
    /\ nextId' = nextId + 1

\* send_notification called on its own (by a job or a service)
SendNotification(u, ok) ==
    /\ Notify(u, ok)
    /\ UNCHANGED <<webVars, connected_users, sessions, nextSid, nextBroadcast, threads>>

\* ------------------------------------------------------------ handle_connect
\* a drain loop that walks the queue from its newest item
DrainEmits_Lifo(pending, sid, failAt) ==
    LET last == IF failAt \in 1..Len(pending) THEN failAt ELSE Len(pending)
    IN  [i \in 1..last |->
            Emit("notification", pending[Len(pending) + 1 - i], sid, "drain", i # failAt, TRUE)]

\* a drain loop that stops after the first item
DrainEmits_FirstOnly(pending, sid, failAt) ==
    IF pending = <<>> THEN <<>>
    ELSE <<Emit("notification", pending[1], sid, "drain", failAt # 1, TRUE)>>

\* lines 68-69: the emits of the drain loop over pending; the failAt-th one
\* raises and ends the loop (failAt = 0 or failAt > Len(pending): none raises)
DrainEmits(pending, sid, failAt) ==
    LET last == IF failAt \in 1..Len(pending) THEN failAt ELSE Len(pending)
    IN  [i \in 1..last |->
            Emit("notification", pending[i], sid, "drain", i # failAt, TRUE)]

\* a handler that forgets to reset the queue
ClearPending_Keep(un, u) == un

\* line 72: the queue after the drain loop ended normally
ClearPending(un, u) == SetPending(un, u, <<>>)

\* handle_connect for current_user = who on a new session; failAt numbers the
\* emit of this handler that raises (0: none)
HandleConnect(who, failAt) ==
    /\ nextSid <= MaxSids
    /\ nextSid' = nextSid + 1
    /\ sessions' = sessions \cup {[sid |-> nextSid, user |-> who]}
    /\ IF who # Anon
       THEN LET sid == nextSid
                un1 == SetPending(user_notifications, who,
                                  PendingOf(user_notifications, who))
                pending == PendingOf(un1, who)
                n == Len(pending)
                drained == DrainEmits(pending, sid, failAt)
            IN  /\ failAt \in 0..(n + 1)
                /\ connected_users' = Put(connected_users, who, sid)
                /\ IF failAt \in 1..n
                   THEN /\ user_notifications' = un1
                        /\ Record(drained)
                        /\ ret' = Ret("connect", who, NoRole, "raised", 0, NoPayload)
                   ELSE /\ user_notifications' = ClearPending(un1, who)
                        /\ Record(drained \o
                               <<Emit("connection_established", [user_id |-> who],
                                      AllRooms, "connect", failAt = 0, TRUE)>>)
                        /\ ret' = Ret("connect", who, NoRole,
                                      IF failAt = 0 THEN "None" ELSE "raised", 0, NoPayload)
       ELSE /\ failAt \in 0..1
            /\ Record(<<Emit("connection_established", [user_id |-> Anon],
                             AllRooms, "connect", failAt = 0, TRUE)>>)
            /\ ret' = Ret("connect", Anon, NoRole,
                          IF failAt = 0 THEN "None" ELSE "raised", 0, NoPayload)
            /\ UNCHANGED <<connected_users, user_notifications>>
    /\ UNCHANGED <<webVars, nextId, nextBroadcast, stored, threads>>

\* --------------------------------------------------------- handle_disconnect
\* a handler that leaves the registry entry in place
Unregister_Keep(cu, u) == cu

\* lines 81-82
Unregister(cu, u) == IF Has(cu, u) THEN Del(cu, u) ELSE cu

\* handle_disconnect for the open session s
HandleDisconnect(s) ==
    /\ s \in sessions
    /\ sessions' = sessions \ {s}
    /\ connected_users' = IF s.user # Anon
                          THEN Unregister(connected_users, s.user)
                          ELSE connected_users
    /\ ret' = Ret("disconnect", s.user, NoRole, "None", 0, NoPayload)
    /\ Record(<<>>)
    /\ UNCHANGED <<webVars, user_notifications, nextId, nextSid, nextBroadcast, stored, threads>>

\* ---------------------------------------------- send_broadcast_notification
\* a loop that skips the users whose role is not admin
BroadcastTargets_AdminsOnly(cu, user_role) == SelectSeq(cu, LAMBDA e : RoleOf(e.k) = "admin")

\* lines 166-170: the users the loop emits to; user_role is not looked at
BroadcastTargets(cu, user_role) == cu

\* send_broadcast_notification(notification_data, user_role); failAt numbers
\* the emit that raises (0: none)
SendBroadcast(user_role, failAt) ==
    /\ nextBroadcast <= MaxBroadcasts
    /\ nextBroadcast' = nextBroadcast + 1
    /\ LET payload == BroadcastPayload(nextBroadcast)
           targets == BroadcastTargets(connected_users, user_role)
           last == IF failAt = 0 THEN Len(targets) ELSE failAt
       IN  /\ failAt \in 0..Len(targets)
           /\ Record([i \in 1..last |->
                      Emit("notification", payload, targets[i].v, "broadcast",
                           i # failAt, Live(sessions, targets[i].v))])
           /\ ret' = Ret("broadcast", Anon, user_role,
                         IF failAt = 0 THEN "True" ELSE "False",
                         IF failAt = 0 THEN Len(targets) ELSE 0, payload)
    /\ UNCHANGED <<webVars, connected_users, user_notifications, sessions, nextId, nextSid, stored,
                   threads>>

\* ---------------------------------------------------------------------- Spec
\* the notify, connect and broadcast calls made so far
Calls == (nextId - 1) + (nextSid - 1) + (nextBroadcast - 1)

Next ==
    \/ \E u \in Users, ok \in BOOLEAN : Calls < MaxCalls /\ SendNotification(u, ok)
    \/ \E who \in Users \cup {Anon}, failAt \in 0..(MaxNotifs + 1) :
           Calls < MaxCalls /\ HandleConnect(who, failAt)
    \/ \E s \in sessions : HandleDisconnect(s)
    \/ \E r \in Roles \cup {NoRole}, failAt \in 0..NumUsers :
           Calls < MaxCalls /\ SendBroadcast(r, failAt)

Spec == Init /\ [][Next]_vars

\* ------------------------------------------------------------------ SpecRace
\* The web-request, scheduler and socket threads run the handlers above with
\* no lock: a step is one statement of one thread.  threads[t].pc names the
\* line the thread executes next.  Every emit is accepted in SpecRace.

\* thread t moves on; fields is the record of its new locals
Goto(t, fields) == threads' = [threads EXCEPT ![t] = fields]
Finish(t) == threads' = [threads EXCEPT ![t] = Idle]

\* the bookkeeping of a step that emits e (an accepted 'notification' emit)
RacePush(e) ==
    /\ delivered' = delivered (+) SetToBag({e})
    /\ UNCHANGED <<emits, faults>>

\* lines 113-122: the call starts and builds its notification
N_Build(t, u) ==
    /\ threads[t].op = "idle"
    /\ nextId <= RaceNotifs
    /\ nextId' = nextId + 1
    /\ Goto(t, [Idle EXCEPT !.op = "notify", !.pc = "n125", !.user = u,
                            !.n = Notification(nextId, u)])
    /\ UNCHANGED <<webVars, connected_users, user_notifications, sessions, emits, delivered,
                   faults, stored, nextSid, nextBroadcast, ret>>

\* line 125: if user_id in self.connected_users
N_Check(t) ==
    /\ threads[t].pc = "n125"
    /\ Goto(t, [threads[t] EXCEPT !.pc = IF Has(connected_users, threads[t].user)
                                         THEN "n127" ELSE "n132"])
    /\ UNCHANGED <<webVars, connected_users, user_notifications, sessions, emits, delivered,
                   faults, stored, nextId, nextSid, nextBroadcast, ret>>

\* lines 127-129: emit to self.connected_users[user_id] and return True; the
\* subscript raises KeyError when the entry is gone, and lines 138-140 return False
N_Emit(t) ==
    LET u == threads[t].user
        n == threads[t].n
    IN  /\ threads[t].pc = "n127"
        /\ IF Has(connected_users, u)
           THEN /\ RacePush(Emit("notification", n, Get(connected_users, u), "notify", TRUE,
                                 Live(sessions, Get(connected_users, u))))
                /\ ret' = Ret("notify", u, NoRole, NotifyReturnSent, 0, n)
           ELSE /\ UNCHANGED <<emits, delivered, faults>>
                /\ ret' = Ret("notify", u, NoRole, NotifyReturnExcept, 0, n)
        /\ Finish(t)
        /\ UNCHANGED <<webVars, connected_users, user_notifications, sessions, stored,
                       nextId, nextSid, nextBroadcast>>

\* line 132: if user_id not in self.user_notifications
N_TestQueue(t) ==
    /\ threads[t].pc = "n132"
    /\ Goto(t, [threads[t] EXCEPT !.pc = IF HasPending(user_notifications, threads[t].user)
                                         THEN "n134" ELSE "n133"])
    /\ UNCHANGED <<webVars, connected_users, user_notifications, sessions, emits, delivered,
                   faults, stored, nextId, nextSid, nextBroadcast, ret>>

\* a new list is bound to user_notifications[u]: a thread whose
\* pending_notifications is the old list keeps the old list's items
Detach(ths, un, u) ==
    [x \in Threads |->
        IF ths[x].att /\ ths[x].user = u
        THEN [ths[x] EXCEPT !.att = FALSE, !.snap = PendingOf(un, u)]
        ELSE ths[x]]

\* line 133: self.user_notifications[user_id] = []
N_InitQueue(t) ==
    LET u == threads[t].user
    IN  /\ threads[t].pc = "n133"
        /\ user_notifications' = SetPending(user_notifications, u, <<>>)
        /\ threads' = [Detach(threads, user_notifications, u) EXCEPT ![t].pc = "n134"]
        /\ UNCHANGED <<webVars, connected_users, sessions, emits, delivered, faults, stored,
                       nextId, nextSid, nextBroadcast, ret>>

\* lines 134-136: append to the user's list and return True
N_Append(t) ==
    LET u == threads[t].user
        n == threads[t].n
    IN  /\ threads[t].pc = "n134"
        /\ user_notifications' = StorePending(user_notifications, u, n)
        /\ stored' = stored \cup {n}
        /\ ret' = Ret("notify", u, NoRole, NotifyReturnStored, 0, n)
        /\ Finish(t)
        /\ UNCHANGED <<webVars, connected_users, sessions, emits, delivered, faults,
                       nextId, nextSid, nextBroadcast>>

\* lines 57-61: a socket connects, the handler starts for current_user = who
C_Begin(t, who) ==
    /\ threads[t].op = "idle"
    /\ nextSid <= RaceSids
    /\ nextSid' = nextSid + 1
    /\ sessions' = sessions \cup {[sid |-> nextSid, user |-> who]}
    /\ Goto(t, [Idle EXCEPT !.op = "connect", !.user = who, !.sid = nextSid,
                            !.pc = IF who # Anon THEN "c62" ELSE "c74"])
    /\ UNCHANGED <<webVars, connected_users, user_notifications, emits, delivered, faults, stored,
                   nextId, nextBroadcast, ret>>

\* line 62: self.connected_users[user_id] = request.sid
C_Register(t) ==
    /\ threads[t].pc = "c62"
    /\ connected_users' = Put(connected_users, threads[t].user, threads[t].sid)
    /\ Goto(t, [threads[t] EXCEPT !.pc = "c63"])
    /\ UNCHANGED <<webVars, user_notifications, sessions, emits, delivered, faults, stored,
                   nextId, nextSid, nextBroadcast, ret>>

\* line 63: self.user_notifications[user_id] = self.user_notifications.get(user_id, [])
C_InitQueue(t) ==
    LET u == threads[t].user
    IN  /\ threads[t].pc = "c63"
        /\ user_notifications' = SetPending(user_notifications, u,
                                            PendingOf(user_notifications, u))
        /\ Goto(t, [threads[t] EXCEPT !.pc = "c67"])
        /\ UNCHANGED <<webVars, connected_users, sessions, emits, delivered, faults, stored,
                       nextId, nextSid, nextBroadcast, ret>>

\* line 67: pending_notifications = self.user_notifications.get(user_id, []):
\* the local names the list object that is in the dict now
C_GetPending(t) ==
    /\ threads[t].pc = "c67"
    /\ Goto(t, [threads[t] EXCEPT !.pc = "c68", !.i = 1, !.att = TRUE])
    /\ UNCHANGED <<webVars, connected_users, user_notifications, sessions, emits, delivered,
                   faults, stored, nextId, nextSid, nextBroadcast, ret>>

\* the items of thread t's pending_notifications
PendingList(t) ==
    IF threads[t].att THEN PendingOf(user_notifications, threads[t].user)
    ELSE threads[t].snap

\* lines 68-69: one turn of the loop: emit the next item, or leave the loop
C_Loop(t) ==
    /\ threads[t].pc = "c68"
    /\ IF threads[t].i <= Len(PendingList(t))
       THEN /\ RacePush(Emit("notification", PendingList(t)[threads[t].i], threads[t].sid,
                             "drain", TRUE, Live(sessions, threads[t].sid)))
            /\ Goto(t, [threads[t] EXCEPT !.i = @ + 1])
       ELSE /\ Goto(t, [threads[t] EXCEPT !.pc = "c72", !.i = 0, !.att = FALSE,
                                          !.snap = <<>>])
            /\ UNCHANGED <<emits, delivered, faults>>
    /\ UNCHANGED <<webVars, connected_users, user_notifications, sessions, stored,
                   nextId, nextSid, nextBroadcast, ret>>

\* line 72: self.user_notifications[user_id] = []
C_Clear(t) ==
    LET u == threads[t].user
    IN  /\ threads[t].pc = "c72"
        /\ user_notifications' = ClearPending(user_notifications, u)
        /\ threads' = [Detach(threads, user_notifications, u) EXCEPT ![t].pc = "c74"]
        /\ UNCHANGED <<webVars, connected_users, sessions, emits, delivered, faults, stored,
                       nextId, nextSid, nextBroadcast, ret>>

\* line 74: emit connection_established; the handler returns
C_Established(t) ==
    /\ threads[t].pc = "c74"
    /\ ret' = Ret("connect", threads[t].user, NoRole, "None", 0, NoPayload)
    /\ Finish(t)
    /\ UNCHANGED <<webVars, connected_users, user_notifications, sessions, emits, delivered,
                   faults, stored, nextId, nextSid, nextBroadcast>>

\* session s is being connected or disconnected by some thread
InHandler(s) == \E x \in Threads : threads[x].op \in {"connect", "disconnect"}
                                    /\ threads[x].sid = s.sid

\* lines 77-80: the socket of session s closes, the handler starts
D_Begin(t, s) ==
    /\ threads[t].op = "idle"
    /\ s \in sessions
    /\ ~InHandler(s)
    /\ Goto(t, [Idle EXCEPT !.op = "disconnect", !.user = s.user, !.sid = s.sid,
                            !.pc = IF s.user # Anon THEN "d81" ELSE "d83"])
    /\ UNCHANGED <<webVars, connected_users, user_notifications, sessions, emits, delivered,
                   faults, stored, nextId, nextSid, nextBroadcast, ret>>

\* line 81: if user_id in self.connected_users
D_Check(t) ==
    /\ threads[t].pc = "d81"
    /\ Goto(t, [threads[t] EXCEPT !.pc = IF Has(connected_users, threads[t].user)
                                         THEN "d82" ELSE "d83"])
    /\ UNCHANGED <<webVars, connected_users, user_notifications, sessions, emits, delivered,
                   faults, stored, nextId, nextSid, nextBroadcast, ret>>

\* line 82: del self.connected_users[user_id]; KeyError when the entry is gone
D_Del(t) ==
    LET u == threads[t].user
    IN  /\ threads[t].pc = "d82"
        /\ IF Has(connected_users, u)
           THEN /\ connected_users' = Del(connected_users, u)
                /\ Goto(t, [threads[t] EXCEPT !.pc = "d83"])
                /\ UNCHANGED <<sessions, ret>>
           ELSE /\ sessions' = {s \in sessions : s.sid # threads[t].sid}
                /\ ret' = Ret("disconnect", u, NoRole, "raised", 0, NoPayload)
                /\ Finish(t)
                /\ UNCHANGED connected_users
        /\ UNCHANGED <<webVars, user_notifications, emits, delivered, faults, stored,
                       nextId, nextSid, nextBroadcast>>

\* line 83: the handler returns, the session is gone
D_End(t) ==
    /\ threads[t].pc = "d83"
    /\ sessions' = {s \in sessions : s.sid # threads[t].sid}
    /\ ret' = Ret("disconnect", threads[t].user, NoRole, "None", 0, NoPayload)
    /\ Finish(t)
    /\ UNCHANGED <<webVars, connected_users, user_notifications, emits, delivered, faults, stored,
                   nextId, nextSid, nextBroadcast>>

NextRace ==
    \E t \in Threads :
        \/ \E u \in Users : N_Build(t, u)
        \/ N_Check(t)
        \/ N_Emit(t)
        \/ N_TestQueue(t)
        \/ N_InitQueue(t)
        \/ N_Append(t)
        \/ \E who \in Users \cup {Anon} : C_Begin(t, who)
        \/ C_Register(t)
        \/ C_InitQueue(t)
        \/ C_GetPending(t)
        \/ C_Loop(t)
        \/ C_Clear(t)
        \/ C_Established(t)
        \/ \E s \in sessions : D_Begin(t, s)
        \/ D_Check(t)
        \/ D_Del(t)
        \/ D_End(t)

SpecRace == Init /\ [][NextRace]_vars

\* ------------------------------------------------------------------- SpecWeb
\* The request handlers of app.py.  A handler has no try/except: an exception
\* of db.session.commit() or of a service call ends the request with the 500
\* page (app.py:640-643, which rolls the open transaction back).  The inputs
\* say which commit, QR, calendar, mail, SMS and emit calls fail.

\* the values a service call hands back to the handler
\* a mail service whose send_email lets the exception of mail.send through
SendEmail_Propagates(ok) == IF ok THEN "True" ELSE "raised"

\* email_service.send_email: True, or False when mail.send raised
SendEmail(ok) == IF ok THEN "True" ELSE "False"

\* sms_service.send_sms: True, or False when the Twilio client raised
SendSms(ok) == IF ok THEN "True" ELSE "False"

\* one call of a service by a handler
Call(channel, kind, to, result) ==
    [channel |-> channel, kind |-> kind, to |-> to, result |-> result]

\* the calls a handler gets to make: the first that raises ends the request
RECURSIVE Made(_)
Made(calls) ==
    IF calls = <<>> THEN <<>>
    ELSE IF Head(calls).result = "raised" THEN <<Head(calls)>>
    ELSE <<Head(calls)>> \o Made(Tail(calls))

Raises(calls) == \E i \in 1..Len(calls) : calls[i].result = "raised"

\* event.organizer_id != current_user.id and current_user.role != 'admin'
Denied(cu, event) == event.organizer_id # cu /\ RoleOf(cu) # "admin"

\* generate_ticket_number / generate_transaction_id (app.py:137-143)
TicketNumber(event_id, guest_count) == <<"TKT", event_id, guest_count + 1>>
TransactionId(event_id, payment_count) == <<"TXN", event_id, payment_count + 1>>

GuestsOf(event_id) == {g \in guests : g.event_id = event_id}
PaymentsOf(event_id) == {x \in payments : x.event_id = event_id}

\* the response a request ends with; seq numbers the requests
\* arg is what the handler read from the request body
RespondTo(handler, cu, arg, status, wrote, dbfail, row) ==
    response' = [seq |-> response.seq + 1, handler |-> handler, user |-> cu, arg |-> arg,
                 status |-> status,
                 wrote |-> wrote, dbfail |-> dbfail, row |-> row]
Respond(handler, cu, status, wrote, dbfail, row) ==
    RespondTo(handler, cu, NoArg, status, wrote, dbfail, row)
NoRow == [id |-> 0]

\* Event.organizer_id of the event numbered event_id (payment.event.organizer_id)
OrganizerOfEvent(event_id) == (CHOOSE e \in events : e.id = event_id).organizer_id

\* a request that makes no notify call
NoNotify == UNCHANGED <<emits, delivered, faults, stored, user_notifications, nextId, ret>>

\* the coordinator part of a request: the send_*_notification call, when the
\* handler gets that far
NotifyOrganizer(reached, organizer, emitOk) ==
    IF reached THEN nextId <= WebNotifs /\ Notify(organizer, emitOk)
    ELSE emitOk /\ NoNotify

\* the result send_*_notification hands back (the return value of send_notification)
NotifyResult(organizer, emitOk) == NotifyReturn(connected_users, organizer, emitOk)

coordFrame == <<connected_users, sessions, nextSid, nextBroadcast, threads, schedVars>>

\* create_event POST (app.py:220-254)
CreateEvent(cu, commitOk, emitOk, calOk, commit2Ok) ==
    LET row == [id |-> Cardinality(events) + 1, organizer_id |-> cu, calendar |-> FALSE]
        dbfail == ~commitOk \/ (calOk /\ ~commit2Ok)
    IN  /\ Cardinality(events) < MaxEvents
        /\ commitOk \/ (emitOk /\ calOk /\ commit2Ok)
        /\ calOk \/ commit2Ok
        /\ events' = IF ~commitOk THEN events
                     ELSE events \cup {[row EXCEPT !.calendar = calOk /\ commit2Ok]}
        /\ NotifyOrganizer(commitOk, cu, emitOk)
        /\ sent' = IF commitOk
                   THEN <<Call("notify", "event_created", cu, NotifyResult(cu, emitOk))>>
                   ELSE <<>>
        /\ Respond("create_event", cu, IF dbfail THEN "error" ELSE "success",
                   commitOk, dbfail, IF commitOk THEN row ELSE NoRow)
        /\ UNCHANGED <<coordFrame, guests, payments>>

\* a handler that sends the invitation mail and no welcome SMS
GuestCalls_NoSms(row, phone, emailOk, smsOk) ==
    <<Call("email", "event_invitation", row.id, SendEmail(emailOk))>>

\* app.py:312-317: the invitation mail, and the welcome SMS when a phone was given
GuestCalls(row, phone, emailOk, smsOk) ==
    <<Call("email", "event_invitation", row.id, SendEmail(emailOk))>> \o
    (IF phone THEN <<Call("sms", "welcome", row.id, SendSms(smsOk))>> ELSE <<>>)

\* manage_guests POST (app.py:279-325)
AddGuest(cu, event, phone, commitOk, qrOk, commit2Ok, emailOk, smsOk, emitOk) ==
    LET row == [id |-> Cardinality(guests) + 1, event_id |-> event.id, phone |-> phone,
                rsvp_status |-> "pending", check_in_status |-> FALSE,
                ticket_number |-> TicketNumber(event.id, Cardinality(GuestsOf(event.id))),
                qr |-> FALSE]
        denied == Denied(cu, event)
        dbfail == ~denied /\ (~commitOk \/ (qrOk /\ ~commit2Ok))
        calls == GuestCalls(row, phone, emailOk, smsOk)
        made == IF denied \/ dbfail THEN <<>> ELSE Made(calls)
        reached == ~denied /\ ~dbfail /\ ~Raises(made)
    IN  /\ event \in events
        /\ Cardinality(guests) < MaxGuests
        /\ (denied \/ ~commitOk) => (qrOk /\ commit2Ok)
        /\ (denied \/ dbfail) => (emailOk /\ smsOk /\ emitOk)
        /\ qrOk \/ commit2Ok
        /\ phone \/ smsOk
        /\ guests' = IF denied \/ ~commitOk THEN guests
                     ELSE guests \cup {[row EXCEPT !.qr = qrOk /\ commit2Ok]}
        /\ NotifyOrganizer(reached, event.organizer_id, emitOk)
        /\ sent' = IF reached
                   THEN made \o <<Call("notify", "guest_registered", event.organizer_id,
                                       NotifyResult(event.organizer_id, emitOk))>>
                   ELSE made
        /\ Respond("manage_guests", cu,
                   IF denied THEN "denied"
                   ELSE IF dbfail \/ Raises(made) THEN "error" ELSE "success",
                   ~denied /\ commitOk, dbfail, IF ~denied /\ commitOk THEN row ELSE NoRow)
        /\ UNCHANGED <<coordFrame, events, payments>>

\* check_in_guest (app.py:330-348); the guest is looked up by its id alone
CheckInGuest(cu, event, guest, commitOk, smsOk, emitOk) ==
    LET row == [guest EXCEPT !.check_in_status = TRUE]
        denied == Denied(cu, event)
        dbfail == ~denied /\ ~commitOk
        calls == <<Call("sms", "check_in", guest.id, SendSms(smsOk))>>
        made == IF denied \/ dbfail THEN <<>> ELSE Made(calls)
        reached == ~denied /\ ~dbfail /\ ~Raises(made)
    IN  /\ event \in events
        /\ guest \in guests
        /\ (denied \/ dbfail) => (smsOk /\ emitOk)
        /\ guests' = IF denied \/ dbfail THEN guests ELSE (guests \ {guest}) \cup {row}
        /\ NotifyOrganizer(reached, event.organizer_id, emitOk)
        /\ sent' = IF reached
                   THEN made \o <<Call("notify", "guest_checked_in", event.organizer_id,
                                       NotifyResult(event.organizer_id, emitOk))>>
                   ELSE made
        /\ RespondTo("check_in_guest", cu,
                     [event_id |-> event.id, guest_id |-> guest.id, rsvp_status |-> "none"],
                   IF denied THEN "denied"
                   ELSE IF dbfail \/ Raises(made) THEN "error" ELSE "success",
                   ~denied /\ commitOk, dbfail, IF ~denied /\ commitOk THEN row ELSE NoRow)
        /\ UNCHANGED <<coordFrame, events, payments>>

\* the values request.json.get('rsvp_status') can give ("missing": no such key)
RsvpValues == {"confirmed", "declined", "pending", "maybe", "missing"}

\* a handler that takes any status the model column can hold
RsvpValid_AnyKnown(rsvp_status) == rsvp_status \in {"confirmed", "declined", "pending"}

\* app.py:360: rsvp_status in ['confirmed', 'declined']
RsvpValid(rsvp_status) == rsvp_status \in {"confirmed", "declined"}

\* update_rsvp (app.py:350-373)
UpdateRsvp(cu, event, guest, rsvp_status, commitOk, emailOk, smsOk, emitOk) ==
    LET row == [guest EXCEPT !.rsvp_status = rsvp_status]
        denied == Denied(cu, event)
        valid == RsvpValid(rsvp_status)
        writes == ~denied /\ valid
        dbfail == writes /\ ~commitOk
        calls == <<Call("email", "rsvp_confirmation", guest.id, SendEmail(emailOk)),
                   Call("sms", "rsvp_confirmation", guest.id, SendSms(smsOk))>>
        made == IF ~writes \/ dbfail THEN <<>> ELSE Made(calls)
        reached == writes /\ ~dbfail /\ ~Raises(made)
    IN  /\ event \in events
        /\ guest \in guests
        /\ (~writes) => commitOk
        /\ (~writes \/ dbfail) => (emailOk /\ smsOk /\ emitOk)
        /\ guests' = IF ~writes \/ dbfail THEN guests ELSE (guests \ {guest}) \cup {row}
        /\ NotifyOrganizer(reached, event.organizer_id, emitOk)
        /\ sent' = IF reached
                   THEN made \o <<Call("notify", <<"guest_rsvp", rsvp_status>>,
                                       event.organizer_id,
                                       NotifyResult(event.organizer_id, emitOk))>>
                   ELSE made
        /\ RespondTo("update_rsvp", cu,
                     [event_id |-> event.id, guest_id |-> guest.id, rsvp_status |-> rsvp_status],
                   IF denied THEN "denied"
                   ELSE IF ~valid THEN "invalid"
                   ELSE IF dbfail \/ Raises(made) THEN "error" ELSE "success",
                   writes /\ commitOk, dbfail, IF writes /\ commitOk THEN row ELSE NoRow)
        /\ UNCHANGED <<coordFrame, events, payments>>

\* Payment.stripe_payment_intent_id of a row made without one (None)
NoIntent == 0

\* manage_payments POST (app.py:417-458)
RecordPayment(cu, event, commitOk, emitOk, emailOk) ==
    LET row == [id |-> Cardinality(payments) + 1, event_id |-> event.id,
                status |-> "completed", intent |-> NoIntent,
                transaction_id |-> TransactionId(event.id, Cardinality(PaymentsOf(event.id)))]
        denied == Denied(cu, event)
        dbfail == ~denied /\ ~commitOk
        reached == ~denied /\ ~dbfail
        calls == <<Call("notify", "payment_received", event.organizer_id,
                        NotifyResult(event.organizer_id, emitOk)),
                   Call("email", "payment_receipt", event.organizer_id, SendEmail(emailOk))>>
    IN  /\ event \in events
        /\ Cardinality(payments) < MaxPayments
        /\ (~reached) => (emitOk /\ emailOk)
        /\ payments' = IF reached THEN payments \cup {row} ELSE payments
        /\ NotifyOrganizer(reached, event.organizer_id, emitOk)
        /\ sent' = IF reached THEN Made(calls) ELSE <<>>
        /\ Respond("manage_payments", cu,
                   IF denied THEN "denied"
                   ELSE IF dbfail \/ (reached /\ Raises(calls)) THEN "error" ELSE "success",
                   reached, dbfail, IF reached THEN row ELSE NoRow)
        /\ UNCHANGED <<coordFrame, events, guests>>

\* the requests and connections handled so far
WebCalls == response.seq + (nextSid - 1)

NextWeb ==
    \/ \E cu \in Users, commitOk, emitOk, calOk, commit2Ok \in BOOLEAN :
          WebCalls < MaxRequests /\ CreateEvent(cu, commitOk, emitOk, calOk, commit2Ok)
    \/ \E cu \in Users, event \in events,
          phone, commitOk, qrOk, commit2Ok, emailOk, smsOk, emitOk \in BOOLEAN :
          /\ WebCalls < MaxRequests
          /\ AddGuest(cu, event, phone, commitOk, qrOk, commit2Ok, emailOk, smsOk, emitOk)
    \/ \E cu \in Users, event \in events, guest \in guests, commitOk, smsOk, emitOk \in BOOLEAN :
          WebCalls < MaxRequests /\ CheckInGuest(cu, event, guest, commitOk, smsOk, emitOk)
    \/ \E cu \in Users, event \in events, guest \in guests, rsvp_status \in RsvpValues,
          commitOk, emailOk, smsOk, emitOk \in BOOLEAN :
          /\ WebCalls < MaxRequests
          /\ UpdateRsvp(cu, event, guest, rsvp_status, commitOk, emailOk, smsOk, emitOk)
    \/ \E cu \in Users, event \in events, commitOk, emitOk, emailOk \in BOOLEAN :
          WebCalls < MaxRequests /\ RecordPayment(cu, event, commitOk, emitOk, emailOk)
    \/ \E who \in Users : WebCalls < MaxRequests /\ nextSid <= WebSids /\ HandleConnect(who, 0)
    \/ \E s \in sessions : HandleDisconnect(s)

SpecWeb == Init /\ [][NextWeb]_vars

\* ------------------------------------------------------------------ SpecRows
\* The handlers that change rows already in the tables: check_in_guest,
\* update_rsvp and stripe_webhook, over tables that hold events, guests and
\* payments when the first request arrives.

\* the Stripe event types: the three handle_webhook dispatches on, and one other
WebhookTypes == {"payment_intent.succeeded", "payment_intent.payment_failed",
                 "charge.refunded", "customer.created"}

\* the value handle_webhook hands back when it returns None
NoWebhookEvent == [event_type |-> "none", handled |-> FALSE]

\* a webhook handler that skips the signature check
HandleWebhook_NoVerify(sigOk, type, intent, handleOk) ==
    [event_type |-> CASE type = "payment_intent.succeeded" -> "payment_succeeded"
                      [] type = "payment_intent.payment_failed" -> "payment_failed"
                      [] type = "charge.refunded" -> "charge_refunded"
                      [] OTHER -> type,
     handled |-> type # "customer.created", payment_intent_id |-> intent]

\* payment_service.handle_webhook (lines 192-226) and its _handle_* methods:
\* sigOk = FALSE when construct_event raises ValueError or
\* SignatureVerificationError, handleOk = FALSE when the _handle_* method raises
HandleWebhook(sigOk, type, intent, handleOk) ==
    IF ~sigOk THEN NoWebhookEvent
    ELSE CASE type = "payment_intent.succeeded" ->
                 IF handleOk
                 THEN [event_type |-> "payment_succeeded", handled |-> TRUE,
                       payment_intent_id |-> intent]
                 ELSE NoWebhookEvent
           [] type = "payment_intent.payment_failed" ->
                 IF handleOk
                 THEN [event_type |-> "payment_failed", handled |-> TRUE,
                       payment_intent_id |-> intent]
                 ELSE NoWebhookEvent
           [] type = "charge.refunded" ->
                 IF handleOk
                 THEN [event_type |-> "charge_refunded", handled |-> TRUE,
                       payment_intent_id |-> intent]
                 ELSE NoWebhookEvent
           [] OTHER -> [event_type |-> type, handled |-> FALSE]

\* Payment.query.filter_by(stripe_payment_intent_id=..).first(): the rows it may give
PaymentsWithIntent(intent) == {x \in payments : x.intent = intent}

\* stripe_webhook (app.py:488-521); payment is the row .first() gave, NoRow for None
StripeWebhook(sigOk, type, intent, handleOk, payment, commitOk, emitOk) ==
    LET event == HandleWebhook(sigOk, type, intent, handleOk)
        accepted == event.handled
        found == accepted /\ event.event_type = "payment_succeeded" /\ payment # NoRow
        dbfail == found /\ ~commitOk
        reached == found /\ ~dbfail
        row == [payment EXCEPT !.status = "completed"]
        organizer == OrganizerOfEvent(payment.event_id)
    IN  /\ IF PaymentsWithIntent(intent) = {} \/ ~accepted
              \/ event.event_type # "payment_succeeded"
           THEN payment = NoRow
           ELSE payment \in PaymentsWithIntent(intent)
        /\ (~found) => commitOk
        /\ (~reached) => emitOk
        /\ handleOk \/ (sigOk /\ type # "customer.created")
        /\ payments' = IF reached THEN (payments \ {payment}) \cup {row} ELSE payments
        /\ NotifyOrganizer(reached, IF reached THEN organizer ELSE Anon, emitOk)
        /\ sent' = IF reached
                   THEN <<Call("notify", "payment_received", organizer,
                               NotifyResult(organizer, emitOk))>>
                   ELSE <<>>
        /\ RespondTo("stripe_webhook", Anon, [sigOk |-> sigOk, type |-> type, intent |-> intent],
                     IF ~accepted THEN "bad_request"
                     ELSE IF dbfail THEN "error" ELSE "success",
                     reached, dbfail, IF reached THEN row ELSE NoRow)
        /\ UNCHANGED <<coordFrame, events, guests>>

\* the PaymentIntent ids Stripe reports: those of the rows, and one of no row
Intents == 1..(MaxPayments + 1)

\* the rows the tables hold when the first request arrives: every event has
\* an organizer, every guest and payment an event, ticket numbers are unique
RowEvents ==
    {{[id |-> i, organizer_id |-> ((i - 1) % NumUsers) + 1, calendar |-> FALSE] : i \in 1..MaxRows}}
RowGuests ==
    UNION {{{[id |-> i, event_id |-> e[i], phone |-> TRUE, rsvp_status |-> r[i],
              check_in_status |-> FALSE, ticket_number |-> <<"TKT", e[i], i>>,
              qr |-> TRUE] : i \in 1..n} :
             e \in [1..n -> 1..MaxRows], r \in [1..n -> {"pending", "confirmed", "declined"}]} :
           n \in 0..MaxGuests}
RowPayments ==
    UNION {{{[id |-> i, event_id |-> 1, status |-> "pending", intent |-> t[i],
              transaction_id |-> <<"TXN", 1, i>>] : i \in 1..n} :
             t \in [1..n -> {NoIntent} \cup (Intents \ {MaxPayments + 1})]} :
           n \in 0..MaxPayments}

InitRows ==
    /\ InitCore
    /\ store = EmptyStore
    /\ events \in RowEvents
    /\ \/ guests \in RowGuests /\ payments = {}
       \/ guests = {} /\ payments \in RowPayments

NextRows ==
    /\ response.seq < RowRequests
    /\ \/ \E cu \in Users, event \in events, guest \in guests, commitOk, smsOk, emitOk \in BOOLEAN :
             CheckInGuest(cu, event, guest, commitOk, smsOk, emitOk)
       \/ \E cu \in Users, event \in events, guest \in guests, rsvp_status \in RsvpValues,
             commitOk, sendOk, emitOk \in BOOLEAN :
             UpdateRsvp(cu, event, guest, rsvp_status, commitOk, sendOk, sendOk, emitOk)
       \/ \E sigOk, handleOk, commitOk, emitOk \in BOOLEAN, type \in WebhookTypes,
             intent \in Intents, payment \in payments \cup {NoRow} :
             StripeWebhook(sigOk, type, intent, handleOk, payment, commitOk, emitOk)

SpecRows == InitRows /\ [][NextRows]_vars

\* ----------------------------------------------------------- scheduled jobs
\* The bodies of the jobs of scheduler_service.py.  Dates are whole days.  A
\* body is one try/except: the first database call that raises ends the run.
\* The inputs say which call raises (failAt, 0: none) and whether the mail
\* and SMS transports accept a message.

\* the windows and ages the jobs compute from datetime.now()
ReminderFromDays == 1
ReminderToDays == 3
VendorFromDays == 2
VendorToDays == 7
FeedbackFromDays == 2
FeedbackToDays == 1
FeedbackKeepDays == 365
NotificationKeepDays == 30
DaysPerWeek == 7

\* SQL BETWEEN: both ends belong to the range
Between(x, lo, hi) == lo <= x /\ x <= hi

\* the rows of S by ascending id
RECURSIVE SortById(_)
SortById(S) ==
    IF S = {} THEN <<>>
    ELSE LET r == CHOOSE x \in S : \A y \in S : x.id <= y.id
         IN  <<r>> \o SortById(S \ {r})

\* the orders a query without ORDER BY may return the rows of S in
Orders(S) ==
    {q \in [1..Cardinality(S) -> S] : \A i, j \in 1..Cardinality(S) : i # j => q[i] # q[j]}

\* the events a reminder job selects (lines 135-138, 171-174, 207-210)
Selected(job, st, now) ==
    CASE job = "daily_event_reminders" ->
            {e \in st.events : /\ Between(e.start_date, now + ReminderFromDays,
                                          now + ReminderToDays)
                               /\ e.status \in {"planned", "ongoing"}}
      [] job = "vendor_reminders" ->
            {e \in st.events : /\ Between(e.start_date, now + VendorFromDays,
                                          now + VendorToDays)
                               /\ e.status \in {"planned", "ongoing"}}
      [] job = "feedback_requests" ->
            {e \in st.events : /\ Between(e.end_date, now - FeedbackFromDays,
                                          now - FeedbackToDays)
                               /\ e.status = "completed"}
      [] OTHER -> {}

\* event.guests / event.vendors: the rows the inner loop walks
Children(job, st, e) ==
    IF job = "vendor_reminders"
    THEN {v \in st.vendors : v.event_id = e.id}
    ELSE {g \in st.guests : g.event_id = e.id}

\* a loop body that consults the last run and skips whoever it reached
Due_Dedup(job, row) ==
    /\ \A i \in 1..Len(jobrun.msgs) : jobrun.msgs[i].to # <<job, row.id>>
    /\ CASE job = "daily_event_reminders" ->
                row.rsvp_status = "confirmed" /\ ~row.check_in_status
         [] job = "vendor_reminders" -> row.payment_status # "paid"
         [] job = "feedback_requests" -> row.rsvp_status = "confirmed"
         [] OTHER -> FALSE

\* the test of the inner loop (lines 144, 180, 216)
Due(job, row) ==
    CASE job = "daily_event_reminders" ->
            row.rsvp_status = "confirmed" /\ ~row.check_in_status
      [] job = "vendor_reminders" -> row.payment_status # "paid"
      [] job = "feedback_requests" -> row.rsvp_status = "confirmed"
      [] OTHER -> FALSE

\* the template of the mail and the kind of SMS each job sends
MailKind(job) ==
    CASE job = "daily_event_reminders" -> "event_reminder"
      [] job = "vendor_reminders" -> "vendor_welcome"
      [] job = "feedback_requests" -> "feedback_request"
      [] OTHER -> "none"
SmsKind(job) ==
    CASE job = "daily_event_reminders" -> "event_reminder"
      [] job = "vendor_reminders" -> "vendor_reminder"
      [] job = "feedback_requests" -> "event_update"
      [] OTHER -> "none"

\* an inner loop that sends the SMS whether or not the row has a phone
RowMsgs_AlwaysSms(job, row, emailOk, smsOk) ==
    IF Due(job, row)
    THEN <<Call("email", MailKind(job), <<job, row.id>>, SendEmail(emailOk)),
           Call("sms", SmsKind(job), <<job, row.id>>, SendSms(smsOk))>>
    ELSE <<>>

\* one pass of the inner loop (lines 144-154, 180-190, 216-229)
RowMsgs(job, row, emailOk, smsOk) ==
    IF Due(job, row)
    THEN <<Call("email", MailKind(job), <<job, row.id>>, SendEmail(emailOk))>> \o
         (IF row.phone
          THEN <<Call("sms", SmsKind(job), <<job, row.id>>, SendSms(smsOk))>>
          ELSE <<>>)
    ELSE <<>>

RECURSIVE RowsMsgs(_, _, _, _)
RowsMsgs(job, rows, emailOk, smsOk) ==
    IF rows = <<>> THEN <<>>
    ELSE RowMsgs(job, Head(rows), emailOk, smsOk) \o RowsMsgs(job, Tail(rows), emailOk, smsOk)

\* the outer loop over the first n events of order
RECURSIVE EventsMsgs(_, _, _, _, _, _)
EventsMsgs(job, st, order, n, emailOk, smsOk) ==
    IF n = 0 THEN <<>>
    ELSE EventsMsgs(job, st, order, n - 1, emailOk, smsOk) \o
         RowsMsgs(job, SortById(Children(job, st, order[n])), emailOk, smsOk)

\* the events whose rows were loaded before the call numbered failAt raised:
\* call 1 is the Event query, call k + 1 the load of the k-th event's rows
Walked(order, failAt) == IF failAt = 0 THEN Len(order) ELSE failAt - 1 - (IF failAt > 1 THEN 1 ELSE 0)

\* the admin users and those among them the report and alert loops mail
Admins == {u \in Users : RoleOf(u) = "admin"}
AdminMsgs(kind, st, emailOk) ==
    LET to == SortById({[id |-> u] : u \in Admins \ st.noemail})
    IN  [i \in 1..Len(to) |-> Call("email", kind, <<"user", to[i].id>>, SendEmail(emailOk))]

\* a cleanup that also deletes the rows created on the cutoff day
OldFeedback_Inclusive(st, now) ==
    {f \in st.feedback : f.created_at <= now - FeedbackKeepDays}

\* lines 367-371: the Feedback rows the delete matches
OldFeedback(st, now) ==
    {f \in st.feedback : f.created_at < now - FeedbackKeepDays}

\* a job without its try/except: the exception reaches the executor
JobOutcome_Propagates(fault) == IF fault THEN "raised" ELSE "done"

\* the except clause that ends every job body: the exception is logged
JobOutcome(fault) == IF fault THEN "failed" ELSE "done"

\* datetime.weekday(): 0 is Monday; day 0 of the model is a Monday
Weekday(now) == now % DaysPerWeek

\* lines 243-244 and 304-306: the created_at range a report job counts rows in
ReportWindow(job, now) ==
    CASE job = "daily_reports" -> [lo |-> now, hi |-> now + 1]
      [] job = "weekly_reports" ->
            [lo |-> now - Weekday(now), hi |-> now - Weekday(now) + DaysPerWeek]
      [] OTHER -> [lo |-> 0, hi |-> 0]

ReminderJobs == {"daily_event_reminders", "vendor_reminders", "feedback_requests"}
ReportJobs == {"daily_reports", "weekly_reports"}

\* the database calls of a job that may raise, numbered in the order made
DbCalls(job, order, probeOk) ==
    CASE job \in ReminderJobs -> Len(order) + 1       \* the query, then one load per event
      [] job \in ReportJobs -> 1                       \* the statistics and admin queries
      [] job = "data_cleanup" -> 2                     \* the delete, then the commit
      [] job = "health_check" -> IF probeOk THEN 1 ELSE 2   \* the counts, then the admin query
      [] OTHER -> 0

\* the number of passes of the inner loop that sent a mail (reminders_sent)
Mails(msgs) == Len(SelectSeq(msgs, LAMBDA m : m.channel = "email"))

\* what a job function returns: no job has a return statement, the numbers
\* it counts go to the log (<<>>: None, <<n>>: the number n)
JobValue == <<>>

\* what one run of job does over the store st at time now:
\* [outcome, value, msgs, deleted, count, probe]
JobResult(job, st, now, order, failAt, emailOk, smsOk, probeOk) ==
    LET fault == failAt # 0
        base == [outcome |-> JobOutcome(fault), value |-> JobValue, msgs |-> <<>>,
                 deleted |-> {}, count |-> 0, probe |-> "none",
                 window |-> ReportWindow(job, now)]
    IN  CASE job \in ReminderJobs ->
                LET msgs == EventsMsgs(job, st, order, Walked(order, failAt), emailOk, smsOk)
                IN  [base EXCEPT !.msgs = msgs, !.count = IF fault THEN 0 ELSE Mails(msgs)]
          [] job \in ReportJobs ->
                IF fault THEN base
                ELSE [base EXCEPT
                        !.msgs = AdminMsgs(IF job = "daily_reports" THEN "daily_report"
                                           ELSE "weekly_report", st, emailOk),
                        !.count = Cardinality(Admins)]
          [] job = "data_cleanup" ->
                IF fault THEN base
                ELSE [base EXCEPT !.deleted = OldFeedback(st, now),
                                  !.count = Cardinality(OldFeedback(st, now))]
          [] job = "health_check" ->
                [base EXCEPT
                   !.probe = IF probeOk THEN "healthy" ELSE "unhealthy",
                   !.msgs = IF ~probeOk /\ ~fault
                            THEN AdminMsgs("system_alert", st, emailOk) ELSE <<>>]
          [] OTHER -> base                              \* notification_cleanup: nothing is removed

\* the inputs a run of job can tell apart
JobInputs(job, st, now, order, failAt, emailOk, smsOk, probeOk) ==
    /\ failAt \in 0..DbCalls(job, order, probeOk)
    /\ probeOk \/ job = "health_check"
    /\ (emailOk /\ smsOk) \/ job \in ReminderJobs \cup ReportJobs \cup {"health_check"}

\* the body of job runs to its end: the store and jobrun after it
Ran(job, now, order, failAt, emailOk, smsOk, probeOk) ==
    LET r == JobResult(job, store, now, order, failAt, emailOk, smsOk, probeOk)
    IN  /\ JobInputs(job, store, now, order, failAt, emailOk, smsOk, probeOk)
        /\ store' = [store EXCEPT !.feedback = @ \ r.deleted]
        /\ jobrun' = [seq |-> jobrun.seq + 1, job |-> job, now |-> now, outcome |-> r.outcome, value |-> r.value,
                      msgs |-> r.msgs, deleted |-> r.deleted, count |-> r.count,
                      probe |-> r.probe, window |-> r.window, before |-> store]

\* the variables no job and no trigger touches
appVars == <<connected_users, user_notifications, sessions, emits, delivered, faults, stored,
             nextId, nextSid, nextBroadcast, ret, threads,
             events, guests, payments, response, sent>>

\* ----------------------------------------------------------------- SpecSched
\* init_app builds BackgroundScheduler() with its defaults and add_job is
\* called without max_instances: the executor is a pool of threads with more
\* workers than there are jobs, and a job whose trigger time arrives while
\* max_instances runs of it are executing is skipped for that time.
max_instances == 1

\* an executor that starts a run at every trigger time
CanStart_NoLimit(sch, job) == TRUE

\* the test the scheduler makes before it submits a run of job
CanStart(sch, job) == sch.executing[job] < max_instances

\* the trigger time of job arrives
Trigger(job) ==
    /\ scheduler.running
    /\ job \in scheduler.jobs
    /\ scheduler.fired < MaxTriggers
    /\ scheduler' = [scheduler EXCEPT
                       !.fired = @ + 1,
                       !.executing[job] = IF CanStart(scheduler, job) THEN @ + 1 ELSE @]
    /\ UNCHANGED <<appVars, store, jobrun>>

\* a run of job ends, normally or in its except clause; an exception that
\* left the body would end in the executor, which logs it and goes on
JobEnds(job, now, order, failAt, emailOk, smsOk, probeOk) ==
    /\ scheduler.executing[job] > 0
    /\ Ran(job, now, order, failAt, emailOk, smsOk, probeOk)
    /\ scheduler' = [scheduler EXCEPT !.executing[job] = @ - 1]
    /\ UNCHANGED appVars

\* the dates of the model, in days
EventDay == FeedbackKeepDays + VendorToDays + 3
EventDays == {EventDay, EventDay + 1}
FeedbackDays == {EventDay - FeedbackKeepDays, EventDay}

\* the Monday of the week of EventDay: the day the weekly report fires on
Monday == EventDay - Weekday(EventDay)

\* the days around the ends of a window of lo to hi days
Edge(lo, hi) == {lo - 1, lo, hi, hi + 1}

\* the days a run of job is looked at on: those around the ends of its window
NowsOf(job) ==
    CASE job = "daily_event_reminders" ->
            {EventDay - k : k \in Edge(ReminderFromDays, ReminderToDays)}
      [] job = "vendor_reminders" -> {EventDay - k : k \in Edge(VendorFromDays, VendorToDays)}
      [] job = "feedback_requests" -> {EventDay + k : k \in Edge(FeedbackToDays, FeedbackFromDays)}
      [] job = "data_cleanup" -> {EventDay, EventDay + 1}
      [] job = "weekly_reports" -> {Monday}
      [] OTHER -> {EventDay}

NextSched ==
    \/ \E job \in JobIds : Trigger(job)
    \/ \E job \in JobIds, failAt \in 0..2, sendOk, probeOk \in BOOLEAN :
          JobEnds(job, IF job = "weekly_reports" THEN Monday ELSE EventDay, <<>>,
                  failAt, sendOk, sendOk, probeOk)
    \/ \E u \in Users : nextId <= SchedNotifs /\ SendNotification(u, TRUE)

SpecSched == Init /\ [][NextSched]_vars

\* ------------------------------------------------------------------ SpecJobs
\* One job is run, up to MaxRuns times on one day, over a store that holds rows.
Statuses == {"planned", "ongoing", "completed"}

EventSets(n) ==
    {{[id |-> i, start_date |-> f[i].d, end_date |-> f[i].d, status |-> f[i].s] : i \in 1..n} :
        f \in [1..n -> [d : EventDays, s : Statuses]]}
GuestSets(n, ne) ==
    {{[id |-> i, event_id |-> f[i].e, rsvp_status |-> f[i].r, check_in_status |-> f[i].c,
       phone |-> f[i].p] : i \in 1..n} :
        f \in [1..n -> [e : 1..ne, r : {"confirmed", "pending"}, c : BOOLEAN, p : BOOLEAN]]}
VendorSets(n, ne) ==
    {{[id |-> i, event_id |-> f[i].e, payment_status |-> f[i].s, phone |-> f[i].p] : i \in 1..n} :
        f \in [1..n -> [e : 1..ne, s : {"pending", "paid"}, p : BOOLEAN]]}
FeedbackSets(n) ==
    {{[id |-> i, created_at |-> f[i]] : i \in 1..n} : f \in [1..n -> FeedbackDays]}

\* the stores of at most MaxRows rows
Stores ==
    UNION {[events : EventSets(c[1]), guests : GuestSets(c[2], c[1]),
            vendors : VendorSets(c[3], c[1]), feedback : FeedbackSets(c[4]),
            noemail : SUBSET Admins] :
           c \in {x \in [1..4 -> 0..MaxRows] : x[1] + x[2] + x[3] + x[4] <= MaxRows}}

InitJobs ==
    /\ InitBase
    /\ store \in Stores

\* one run of job from its trigger to its end, no other job executing
RunJob(job, now, order, failAt, emailOk, smsOk, probeOk) ==
    /\ \A j \in JobIds : scheduler.executing[j] = 0
    /\ Ran(job, now, order, failAt, emailOk, smsOk, probeOk)
    /\ UNCHANGED <<appVars, scheduler>>

\* the jobs and days of the next run: any for the first, those of the last after it
NextJobIds == IF jobrun.seq = 0 THEN JobIds ELSE {jobrun.job}
NextNows(job) == IF jobrun.seq = 0 THEN NowsOf(job) ELSE {jobrun.now}

NextJobs ==
    /\ jobrun.seq < MaxRuns
    /\ \E job \in NextJobIds :
          \E now \in NextNows(job) :
             \E order \in Orders(Selected(job, store, now)), sendOk, probeOk \in BOOLEAN :
                \E failAt \in 0..DbCalls(job, order, probeOk) :
                   RunJob(job, now, order, failAt, sendOk, sendOk, probeOk)

SpecJobs == InitJobs /\ [][NextJobs]_vars

\* --------------------------------------------------------------- SpecTickets
\* manage_guests POST handled by several threads at once, a step per database
\* call: the count query, the insert and its commit, then the rest of the
\* handler.  Each request has its own database session; a query sees the rows
\* committed so far.

\* a unique index that is not enforced
TicketTaken_NoConstraint(gs, ticket_number) == FALSE

\* app.py:97, unique=True: the insert of a second row with this ticket_number
\* fails with IntegrityError
TicketTaken(gs, ticket_number) == \E g \in gs : g.ticket_number = ticket_number

\* the requests started so far
Started == response.seq + Cardinality({t \in Threads : threads[t].op # "idle"})

\* the worker that takes the next request: the first idle one (workers are alike)
FreeWorker(t) ==
    /\ threads[t].op = "idle"
    /\ \A x \in Threads : x < t => threads[x].op # "idle"

\* app.py:281-292: the request starts, passes the access check and reads the form
G_Begin(t, cu, event, phone) ==
    /\ FreeWorker(t)
    /\ Started < TicketRequests
    /\ ~Denied(cu, event)
    /\ Goto(t, [op |-> "manage_guests", pc |-> "g294", user |-> cu, event |-> event,
                phone |-> phone, guest_count |-> 0, row |-> NoRow])
    /\ UNCHANGED <<webVars, connected_users, user_notifications, sessions, emits, delivered,
                   faults, stored, nextId, nextSid, nextBroadcast, ret>>

\* app.py:284-286: the requester is neither the organizer nor an admin
G_Denied(t, cu, event) ==
    /\ FreeWorker(t)
    /\ Started < TicketRequests
    /\ Denied(cu, event)
    /\ Respond("manage_guests", cu, "denied", FALSE, FALSE, NoRow)
    /\ sent' = <<>>
    /\ UNCHANGED <<coordFrame, events, guests, payments>>
    /\ NoNotify

\* app.py:294: guest_count = Guest.query.filter_by(event_id=event_id).count()
G_Count(t) ==
    /\ threads[t].op = "manage_guests"
    /\ threads[t].pc = "g294"
    /\ Goto(t, [threads[t] EXCEPT !.pc = "g305",
                                  !.guest_count = Cardinality(GuestsOf(threads[t].event.id))])
    /\ UNCHANGED <<webVars, connected_users, user_notifications, sessions, emits, delivered,
                   faults, stored, nextId, nextSid, nextBroadcast, ret>>

\* app.py:295-306: the ticket number, the new row, add and commit; a commit
\* that fails ends the request with the 500 page and no row
G_Commit(t, commitOk) ==
    LET th == threads[t]
        ticket_number == TicketNumber(th.event.id, th.guest_count)
        row == [id |-> Cardinality(guests) + 1, event_id |-> th.event.id, phone |-> th.phone,
                rsvp_status |-> "pending", check_in_status |-> FALSE,
                ticket_number |-> ticket_number, qr |-> FALSE]
        conflict == TicketTaken(guests, ticket_number)
    IN  /\ th.op = "manage_guests"
        /\ th.pc = "g305"
        /\ IF conflict \/ ~commitOk
           THEN /\ RespondTo("manage_guests", th.user,
                             [ticket_number |-> ticket_number, conflict |-> conflict],
                             "error", FALSE, TRUE, NoRow)
                /\ sent' = <<>>
                /\ Finish(t)
                /\ UNCHANGED guests
           ELSE /\ guests' = guests \cup {row}
                /\ Goto(t, [th EXCEPT !.pc = "g309", !.row = row])
                /\ UNCHANGED <<response, sent>>
        /\ UNCHANGED <<events, payments, schedVars, connected_users, user_notifications,
                       sessions, emits, delivered, faults, stored, nextId, nextSid,
                       nextBroadcast, ret>>

\* app.py:309-325: the QR code and its commit, the mail, the SMS, the
\* notification of the organizer and the redirect
G_Rest(t, qrOk, commit2Ok, sendOk, emitOk) ==
    LET th == threads[t]
        row == th.row
        dbfail == qrOk /\ ~commit2Ok
        calls == GuestCalls(row, th.phone, sendOk, sendOk)
        made == IF dbfail THEN <<>> ELSE Made(calls)
        reached == ~dbfail /\ ~Raises(made)
        organizer == th.event.organizer_id
    IN  /\ th.op = "manage_guests"
        /\ th.pc = "g309"
        /\ qrOk \/ commit2Ok
        /\ dbfail => (sendOk /\ emitOk)
        /\ guests' = IF qrOk /\ commit2Ok
                     THEN (guests \ {row}) \cup {[row EXCEPT !.qr = TRUE]}
                     ELSE guests
        /\ NotifyOrganizer(reached, organizer, emitOk)
        /\ sent' = IF reached
                   THEN made \o <<Call("notify", "guest_registered", organizer,
                                       NotifyResult(organizer, emitOk))>>
                   ELSE made
        /\ RespondTo("manage_guests", th.user,
                     [ticket_number |-> row.ticket_number, conflict |-> FALSE],
                     IF dbfail \/ Raises(made) THEN "error" ELSE "success",
                     TRUE, dbfail, row)
        /\ Finish(t)
        /\ UNCHANGED <<events, payments, schedVars, connected_users, sessions, nextSid,
                       nextBroadcast>>

\* the events guests are added to
TicketEvents ==
    {[id |-> i, organizer_id |-> ((i - 1) % NumUsers) + 1, calendar |-> FALSE] : i \in 1..MaxEvents}

InitTickets ==
    /\ InitCore
    /\ store = EmptyStore
    /\ events = TicketEvents
    /\ guests = {}
    /\ payments = {}

NextTickets ==
    \E t \in Threads :
        \/ \E cu \in Users, event \in events, phone \in BOOLEAN : G_Begin(t, cu, event, phone)
        \/ \E cu \in Users, event \in events : G_Denied(t, cu, event)
        \/ G_Count(t)
        \/ \E commitOk \in BOOLEAN : G_Commit(t, commitOk)
        \/ \E qrOk, commit2Ok, sendOk, emitOk \in BOOLEAN : G_Rest(t, qrOk, commit2Ok, sendOk, emitOk)

SpecTickets == InitTickets /\ [][NextTickets]_vars

\* ------------------------------------------------------------------ SpecLive
\* The coordinator calls together with runs of notification_cleanup, under
\* the assumption that a user who can open a session does so: a connect
\* whose emits are accepted is not postponed forever.

\* the calls and cleanup runs made so far
LiveSteps == Calls + jobrun.seq

\* handle_connect for u with every emit accepted
Reconnect(u) == LiveSteps < LiveCalls /\ HandleConnect(u, 0)

\* cleanup_notifications, fired by its interval trigger
CleanupNotifications ==
    /\ RunJob("notification_cleanup", EventDay, <<>>, 0, TRUE, TRUE, TRUE)

NextLive ==
    \/ \E u \in Users, ok \in BOOLEAN : LiveSteps < LiveCalls /\ SendNotification(u, ok)
    \/ \E who \in Users \cup {Anon}, failAt \in 0..(MaxNotifs + 1) :
           LiveSteps < LiveCalls /\ HandleConnect(who, failAt)
    \/ \E s \in sessions : HandleDisconnect(s)
    \/ \E r \in Roles \cup {NoRole}, failAt \in 0..NumUsers :
           LiveSteps < LiveCalls /\ SendBroadcast(r, failAt)
    \/ LiveSteps < LiveCalls /\ CleanupNotifications

SpecLive == Init /\ [][NextLive]_vars /\ \A u \in Users : WF_vars(Reconnect(u))

TypeOK ==
    /\ Keys(connected_users) \subseteq Users
    /\ nextId \in 1..(MaxNotifs + 1)
    /\ nextSid \in 1..(MaxSids + 1)
\* ============================================================ the properties
\* steps of Spec, told apart by the counter each handler advances
NotifyStep(u) == nextId' = nextId + 1 /\ ret'.user = u
ConnectStep(u) == nextSid' = nextSid + 1 /\ ret'.user = u
DisconnectStep(u) == sessions' # sessions /\ sessions' \subseteq sessions /\ ret'.user = u
BroadcastStep == nextBroadcast' = nextBroadcast + 1

\* the emits of es made by the drain loop
DrainOf(es) == SelectSeq(es, LAMBDA e : e.by = "drain")

\* number of accepted pushes of notification n (to room, or to any room)
PushesTo(n, room) ==
    LET hits == {e \in BagToSet(delivered) : e.payload = n /\ e.room = room /\ e.ok}
        RECURSIVE Sum(_)
        Sum(S) == IF S = {} THEN 0
                  ELSE LET e == CHOOSE x \in S : TRUE
                       IN  CopiesIn(e, delivered) + Sum(S \ {e})
    IN  Sum(hits)
Rooms == 1..MaxSids
RECURSIVE PushesOver(_, _)
PushesOver(n, rooms) ==
    IF rooms = {} THEN 0
    ELSE LET r == CHOOSE x \in rooms : TRUE
         IN  PushesTo(n, r) + PushesOver(n, rooms \ {r})
Pushes(n) == PushesOver(n, Rooms)

InQueue(n) == \E i \in 1..Len(PendingOf(user_notifications, n.user_id)) :
                  PendingOf(user_notifications, n.user_id)[i] = n

\* C1: a send_notification call for a user who is not in connected_users
\* appends exactly one notification to that user's queue, emits nothing and
\* returns False.
C1_OfflineNotifyReturnsFalse ==
    [][\A u \in Users :
         (NotifyStep(u) /\ ~Has(connected_users, u)) =>
            /\ PendingOf(user_notifications', u) =
                   Append(PendingOf(user_notifications, u), Notification(nextId, u))
            /\ \A v \in Users \ {u} : user_notifications'[v] = user_notifications[v]
            /\ emits' = <<>>
            /\ ret'.value = "False"]_vars

\* C2: a send_notification call for a user who is in connected_users makes
\* exactly one emit, of the new notification, to the sid registered for that
\* user, leaves every queue as it was, and returns True when the emit was
\* accepted.
C2_OnlineNotifyPushesOnce ==
    [][\A u \in Users :
         (NotifyStep(u) /\ Has(connected_users, u)) =>
            /\ Len(emits') = 1
            /\ emits'[1].ev = "notification"
            /\ emits'[1].payload = Notification(nextId, u)
            /\ emits'[1].room = Get(connected_users, u)
            /\ user_notifications' = user_notifications
            /\ emits'[1].ok => ret'.value = "True"]_vars

C2_Witness ==
    /\ ret.op = "notify"
    /\ Len(emits) = 1
    /\ emits[1].ok
    /\ emits[1].room = Get(connected_users, ret.user)
    /\ ret.value = "True"

\* C3: handle_connect of an authenticated user whose drain emits are all
\* accepted emits the n queued notifications to the new sid, in queue order,
\* with exactly n 'notification' emits, and leaves the queue empty; with an
\* empty queue it makes no 'notification' emit and the drain does not fail.
C3_ConnectDrainsFifo ==
    [][\A u \in Users :
         (ConnectStep(u) /\ \A i \in 1..Len(emits') : emits'[i].by = "drain" => emits'[i].ok) =>
            LET pending == PendingOf(user_notifications, u)
                pushed == SelectSeq(emits', LAMBDA e : e.ev = "notification")
            IN  /\ Len(pushed) = Len(pending)
                /\ \A i \in 1..Len(pending) :
                      /\ pushed[i].payload = pending[i]
                      /\ pushed[i].room = nextSid
                      /\ emits'[i] = pushed[i]
                /\ PendingOf(user_notifications', u) = <<>>
                /\ Get(connected_users', u) = nextSid]_vars

\* a drain of two or more notifications has happened
C3_Witness ==
    /\ ret.op = "connect"
    /\ ret.user # Anon
    /\ ret.value = "None"
    /\ Len(DrainOf(emits)) >= 2
    /\ PendingOf(user_notifications, ret.user) = <<>>

\* C4: no notification is accepted twice by the same session; and, as long as
\* no drain emit has raised, a notification that was stored for an offline user
\* is in that user's queue and unpushed, or has left the queue and was pushed
\* exactly once, by a drain.
NoDrainFault == \A e \in BagToSet(delivered) : e.by = "drain" => e.ok

C4_AtMostOncePerSession ==
    /\ \A k \in 1..MaxNotifs, u \in Users, r \in Rooms :
          PushesTo(Notification(k, u), r) <= 1
    /\ NoDrainFault =>
          \A n \in stored :
             /\ Pushes(n) <= 1
             /\ InQueue(n) <=> Pushes(n) = 0
             /\ \A e \in BagToSet(delivered) : e.payload = n => e.by = "drain"

\* a stored notification was drained once and its user has connected again since
C4_Witness ==
    \E n \in stored :
       /\ Pushes(n) = 1
       /\ ret.op = "connect"
       /\ ret.user = n.user_id
       /\ DrainOf(emits) = <<>>
       /\ NoDrainFault

\* C5: when handle_disconnect runs between the statements of a
\* send_notification call for the same user, the notification is not lost:
\* once the handlers have returned, the call has emitted it to a session that
\* was open at that moment, or has appended it to the user's queue.
C5_NotifyNotLostByDisconnect ==
    (ret.op = "notify" /\ \A t \in Threads : threads[t].op = "idle") =>
        \/ \E e \in BagToSet(delivered) : e.payload = ret.payload /\ e.ok /\ e.live
        \/ ret.payload \in stored

\* C6: a broadcast without role filter whose emits are all accepted emits the
\* one payload once to the sid of every user in connected_users and to no
\* other room, and returns the number of those users; no broadcast changes a
\* queue.
C6_BroadcastReachesConnected ==
    [][BroadcastStep =>
         /\ user_notifications' = user_notifications
         /\ (ret'.role = NoRole /\ \A i \in 1..Len(emits') : emits'[i].ok) =>
               /\ Len(emits') = Len(connected_users)
               /\ \A i \in 1..Len(emits') :
                     /\ emits'[i].room = connected_users[i].v
                     /\ emits'[i].ev = "notification"
                     /\ emits'[i].payload = BroadcastPayload(nextBroadcast)
               /\ ret'.count = Cardinality(Keys(connected_users))]_vars

\* a broadcast reached one connected user while another user was offline
C6_Witness ==
    /\ ret.op = "broadcast"
    /\ ret.role = NoRole
    /\ ret.count = 1
    /\ Len(emits) = 1
    /\ \E u \in Users : ~Has(connected_users, u)

\* C7: a broadcast with a role filter emits only to connected users whose
\* role is the filter, and returns how many connected users have that role.
C7_BroadcastRoleFilter ==
    (ret.op = "broadcast" /\ ret.role # NoRole /\ ret.value = "True") =>
        /\ ret.count = Cardinality({u \in Keys(connected_users) : RoleOf(u) = ret.role})
        /\ \A i \in 1..Len(emits) :
              \E u \in Keys(connected_users) :
                 RoleOf(u) = ret.role /\ Get(connected_users, u) = emits[i].room

\* C8: send_notification never raises; when the emit for a connected user
\* raises, the call has made that one emit only and returns False.
C8_NotifyNeverRaises ==
    ret.op = "notify" =>
        /\ ret.value \in {"True", "False"}
        /\ Len(emits) <= 1
        /\ (Len(emits) = 1 /\ ~emits[1].ok) => ret.value = "False"

C8_Witness ==
    /\ ret.op = "notify"
    /\ Len(emits) = 1
    /\ ~emits[1].ok
    /\ ret.value = "False"

\* C9: handle_disconnect of a logged-in user leaves that user out of
\* connected_users; only that user's handle_connect puts the user back; and a
\* send_notification for a user who is not in connected_users appends to the
\* user's queue and emits nothing.
C9_DisconnectThenQueue ==
    [][\A u \in Users :
         /\ DisconnectStep(u) => ~Has(connected_users', u)
         /\ (~Has(connected_users, u) /\ Has(connected_users', u)) => ConnectStep(u)
         /\ (NotifyStep(u) /\ ~Has(connected_users, u)) =>
               /\ PendingOf(user_notifications', u) =
                      Append(PendingOf(user_notifications, u), Notification(nextId, u))
               /\ emits' = <<>>]_vars

\* a notification was queued for a user who had been connected before
C9_Witness ==
    /\ ret.op = "notify"
    /\ ~Has(connected_users, ret.user)
    /\ Len(PendingOf(user_notifications, ret.user)) >= 1
    /\ emits = <<>>
    /\ \E e \in BagToSet(delivered) : e.by = "notify" /\ e.payload.user_id = ret.user
\* the row the last request committed is in its table (the QR flag and the
\* calendar id are filled in by the handler's second commit)
Committed(r) ==
    CASE r.handler = "create_event" ->
            \E e \in events : [e EXCEPT !.calendar = FALSE] = r.row
      [] r.handler \in {"manage_guests", "check_in_guest", "update_rsvp"} ->
            \E g \in guests : [g EXCEPT !.qr = FALSE] = [r.row EXCEPT !.qr = FALSE]
      [] r.handler = "manage_payments" -> r.row \in payments
      [] OTHER -> FALSE

\* C10: for create event, add guest, check in guest, RSVP update and record
\* payment the response is an error only when a commit failed, it is the
\* success response exactly when the handler's write was committed and no
\* commit failed, whatever the mail, SMS and emit calls did, and the committed
\* row is in the table when the response is given.
C10_ResponseFollowsDomainWrite ==
    /\ response.status = "error" => response.dbfail
    /\ response.status = "success" <=> (response.wrote /\ ~response.dbfail)
    /\ response.wrote => Committed(response)

\* a guest was added although the invitation mail, the SMS and the emit failed
C10_Witness ==
    /\ response.handler = "manage_guests"
    /\ response.status = "success"
    /\ Committed(response)
    /\ Len(sent) = 3
    /\ \A i \in 1..3 : sent[i].result = "False"
    /\ {sent[i].channel : i \in 1..3} = {"email", "sms", "notify"}

\* ----------------------------------------------------- the scheduled jobs
\* a run of a job ended in this step
JobEnded == jobrun'.seq = jobrun.seq + 1

\* the runs executing
Executing(sch) == {j \in JobIds : sch.executing[j] > 0}

\* C11: when the body of a job raises, the exception ends in the job's own
\* except clause: nothing reaches the executor, the scheduler keeps running
\* with all its jobs, the runs of the other jobs go on, and the next trigger
\* time of the failed job starts a new run of it.
C11_JobFailureIsContained ==
    [][(JobEnded /\ jobrun'.outcome # "done") =>
          /\ jobrun'.outcome = "failed"
          /\ scheduler'.running
          /\ scheduler'.jobs = JobIds
          /\ \A j \in JobIds \ {jobrun'.job} : scheduler'.executing[j] = scheduler.executing[j]
          /\ CanStart(scheduler', jobrun'.job)]_vars

\* a job failed and a later trigger time has started a new run of it
C11_Witness ==
    /\ jobrun.outcome = "failed"
    /\ scheduler.executing[jobrun.job] = 1
    /\ \E j \in JobIds \ {jobrun.job} : scheduler.executing[j] = 1

\* C12: no job id ever has two runs executing, also when a trigger time of
\* the job arrives while a run of it is still executing.
C12_NoOverlapOfSameJob ==
    \A j \in JobIds : scheduler.executing[j] <= 1

\* two trigger times of one job have arrived and its first run is still executing
C12_Witness ==
    /\ scheduler.fired = 2
    /\ jobrun.seq = 0
    /\ Cardinality(Executing(scheduler)) = 1

\* C13: at no time are runs of two different job ids executing.
C13_OneJobAtATime ==
    Cardinality(Executing(scheduler)) <= 1

\* the calls of calls made over channel, and those among them of one kind to one target
CallsOver(calls, channel) == {i \in 1..Len(calls) : calls[i].channel = channel}
CallsTo(calls, channel, kind, to) ==
    {i \in CallsOver(calls, channel) : calls[i].kind = kind /\ calls[i].to = to}

\* the organizer of the event with this id
OrganizerOf(event_id) == (CHOOSE e \in events : e.id = event_id).organizer_id

\* C14: a manage_guests request that adds a guest with a phone number makes
\* exactly one invitation mail call and one welcome SMS call for the guest and
\* one notify call with subtype guest_registered for the event's organizer,
\* and no request makes any of these calls before the guest row is committed.
C14_AddGuestFanOut ==
    /\ (response.handler = "manage_guests" /\ response.status = "success" /\ response.row.phone) =>
          /\ Cardinality(CallsTo(sent, "email", "event_invitation", response.row.id)) = 1
          /\ Cardinality(CallsOver(sent, "email")) = 1
          /\ Cardinality(CallsTo(sent, "sms", "welcome", response.row.id)) = 1
          /\ Cardinality(CallsOver(sent, "sms")) = 1
          /\ Cardinality(CallsTo(sent, "notify", "guest_registered",
                                 OrganizerOf(response.row.event_id))) = 1
          /\ Cardinality(CallsOver(sent, "notify")) = 1
    /\ (response.handler = "manage_guests" /\ sent # <<>>) =>
          (response.wrote /\ Committed(response))

\* a guest with a phone was added for an event and all three calls were accepted
C14_Witness ==
    /\ response.handler = "manage_guests"
    /\ response.status = "success"
    /\ response.row.phone
    /\ \A i \in 1..Len(sent) : sent[i].result = "True"
    /\ response.user # OrganizerOf(response.row.event_id)

\* the mail and SMS calls of the last run for the row with this id
MailsTo(id) == {i \in CallsOver(jobrun.msgs, "email") : jobrun.msgs[i].to = <<jobrun.job, id>>}
SmsTo(id) == {i \in CallsOver(jobrun.msgs, "sms") : jobrun.msgs[i].to = <<jobrun.job, id>>}

\* the guest gets one reminder mail, and one reminder SMS iff it has a phone
Reminded(g) ==
    /\ Cardinality(MailsTo(g.id)) = 1
    /\ \A i \in MailsTo(g.id) : jobrun.msgs[i].kind = "event_reminder"
    /\ Cardinality(SmsTo(g.id)) = (IF g.phone THEN 1 ELSE 0)
    /\ \A i \in SmsTo(g.id) : jobrun.msgs[i].kind = "event_reminder"
NotReminded(g) == MailsTo(g.id) = {} /\ SmsTo(g.id) = {}

\* the guests of the store the last run read, of the events starting lo to hi
\* days after the run whose status is in statuses
GuestsInWindow(lo, hi, statuses) ==
    {g \in jobrun.before.guests :
        \E e \in jobrun.before.events :
            /\ e.id = g.event_id
            /\ e.start_date - jobrun.now >= lo
            /\ e.start_date - jobrun.now <= hi
            /\ e.status \in statuses}

\* a run of daily_event_reminders that no database error cut short
DailyRun == jobrun.job = "daily_event_reminders" /\ jobrun.outcome = "done"

CleanupRun == jobrun.job = "data_cleanup" /\ jobrun.outcome = "done"

\* the Feedback rows the last run found that were created more than 365 days before it
OlderThanAYear == {f \in jobrun.before.feedback : jobrun.now - f.created_at > 365}

AlertsTo(u) == CallsTo(jobrun.msgs, "email", "system_alert", <<"user", u>>)

\* C17: when health_check finds the connectivity probe failing, an alert
\* mail is sent to every admin user that has an email address; when the
\* probe succeeds no alert is sent.
C17_UnhealthyAlertsAdmins ==
    jobrun.job = "health_check" =>
        IF jobrun.probe = "unhealthy"
        THEN \A u \in Admins \ jobrun.before.noemail : AlertsTo(u) # {}
        ELSE jobrun.msgs = <<>>

\* the notifications in the queues un
Queued(un) == UNION {{PendingOf(un, u)[i] : i \in 1..Len(PendingOf(un, u))} : u \in Users}

\* C18: after a run of notification_cleanup no stored notification, those
\* in the pending queues included, was created more than 30 days before it.
C18_CleanupPurgesOldNotifications ==
    [][(JobEnded /\ jobrun'.job = "notification_cleanup" /\ jobrun'.outcome = "done") =>
          \A n \in Queued(user_notifications') : jobrun'.now - n.created_at <= NotificationKeepDays]_vars

\* the fields a notification payload is documented to carry
PayloadFields == {"id", "type", "subtype", "title", "message", "data", "created_at", "read"}

\* the payloads send_notification has pushed or queued so far
NotifyPayloads ==
    {e.payload : e \in {d \in BagToSet(delivered) : d.by = "notify"}} \cup stored

\* C19: every payload send_notification pushes or queues carries id, type,
\* subtype, title, message, data, created_at and read, with the subtype the
\* caller passed and read = false.
C19_PayloadCarriesSubtype ==
    \A n \in NotifyPayloads :
        /\ PayloadFields \subseteq DOMAIN n
        /\ n.subtype = "guest_registered"
        /\ n.read = FALSE

\* what was sent to whom in msgs, the order and the transports' answers left out
Sends(msgs) == {<<msgs[i].channel, msgs[i].kind, msgs[i].to>> : i \in 1..Len(msgs)}

\* this step is the second of two full runs of one reminder job at the same
\* time over the same store contents
RerunOfReminder ==
    /\ jobrun.seq >= 1
    /\ jobrun'.seq = jobrun.seq + 1
    /\ jobrun.job \in ReminderJobs
    /\ jobrun'.job = jobrun.job
    /\ jobrun'.now = jobrun.now
    /\ jobrun'.before = jobrun.before
    /\ jobrun.outcome = "done"
    /\ jobrun'.outcome = "done"

RequestStep(handler) == response'.seq = response.seq + 1 /\ response'.handler = handler

\* the event the request named in its URL
RequestedEvent == CHOOSE e \in events : e.id = response'.arg.event_id

\* C21: update_rsvp with an rsvp_status other than confirmed or declined
\* answers 400 (403 when the requester may not touch the event at all),
\* leaves the guest as it was and makes no mail, SMS or notify call; and no
\* request moves a guest's rsvp_status back to pending once it has left it.
C21_InvalidRsvpRejected ==
    [][/\ (RequestStep("update_rsvp")
             /\ response'.arg.rsvp_status \notin {"confirmed", "declined"}) =>
             /\ response'.status = IF Denied(response'.user, RequestedEvent)
                                   THEN "denied" ELSE "invalid"
             /\ guests' = guests
             /\ sent' = <<>>
             /\ nextId' = nextId
             /\ user_notifications' = user_notifications
       /\ \A g \in guests, h \in guests' :
             (g.id = h.id /\ g.rsvp_status # "pending") => h.rsvp_status # "pending"]_vars

\* the organizer asked to set a confirmed guest back to pending and got the 400 answer
C21_Witness ==
    /\ response.handler = "update_rsvp"
    /\ response.arg.rsvp_status = "pending"
    /\ response.status = "invalid"
    /\ \E g \in guests : g.id = response.arg.guest_id /\ g.rsvp_status = "confirmed"

\* C22: the weekly report, fired on a Monday, counts the rows created in the
\* week before the run: its window is the seven days that end at the run.
C22_WeeklyReportCoversLastWeek ==
    (jobrun.job = "weekly_reports" /\ Weekday(jobrun.now) = 0) =>
        /\ jobrun.window.hi <= jobrun.now
        /\ jobrun.window.lo = jobrun.window.hi - DaysPerWeek

\* no handler is between two of its statements
AllIdle == \A t \in Threads : threads[t].op = "idle"

\* n was emitted to a session of its user
Pushed(n) == \E e \in BagToSet(delivered) : e.payload = n /\ e.ok

\* C23: when send_notification and handle_connect for the same user run
\* interleaved, the notification is not lost: once the handlers have
\* returned, a notification that was appended to the queue has been emitted
\* or is still in the queue (stored = {n}: no other call has appended, so
\* only a handle_connect can have touched the queue).
C23_NotifyNotLostByConnect ==
    AllIdle => \A n \in stored : stored = {n} => (Pushed(n) \/ InQueue(n))

\* C24: whenever no handler is between two of its statements, a user who is
\* in connected_users has an empty queue.
C24_RegisteredImpliesEmptyQueue ==
    AllIdle => \A u \in Users :
                  Has(connected_users, u) => PendingOf(user_notifications, u) = <<>>

\* C25: a user who has an open session is in connected_users, mapped to the
\* sid of an open session, also after another session of theirs has closed.
C25_LiveSessionStaysRegistered ==
    \A s \in sessions :
        s.user # Anon =>
            /\ Has(connected_users, s.user)
            /\ Live(sessions, Get(connected_users, s.user))

\* C26: over all sessions a queued notification is emitted at most once, also
\* when an emit of a drain loop raised and a later handle_connect drains again.
C26_DrainedAtMostOnce ==
    \A n \in stored : Pushes(n) <= 1

\* the queue of u keeps what it holds, in place
KeepsQueue(u) ==
    LET old == PendingOf(user_notifications, u)
        new == PendingOf(user_notifications', u)
    IN  Len(new) >= Len(old) /\ SubSeq(new, 1, Len(old)) = old

\* u can still open a session
CanConnect(u) == LiveSteps < LiveCalls /\ nextSid <= MaxSids

\* C27: a notification queued for a user stays in the queue, in its place,
\* through every step that is not a handle_connect of that user (calls for
\* any user, broadcasts, disconnects, connects of others, cleanup runs), and
\* it is emitted to the user once they connect: it does not stay queued, and
\* is not dropped, while the user can still open a session.
C27_QueuedUntilOwnConnect ==
    /\ [][\A u \in Users : ~ConnectStep(u) => KeepsQueue(u)]_vars
    /\ \A u \in Users : \A k \in 1..MaxNotifs :
          InQueue(Notification(k, u)) ~>
             \/ Pushed(Notification(k, u))
             \/ InQueue(Notification(k, u)) /\ ~CanConnect(u)

\* a queued notification was emitted by the connect of its user, after a
\* cleanup run had left it in the queue
C27_Witness ==
    /\ jobrun.job = "notification_cleanup"
    /\ ret.op = "connect"
    /\ \E n \in stored : ret.user = n.user_id /\ Pushed(n) /\ ~InQueue(n)

\* the event a guest belongs to
EventOfGuest(g) == CHOOSE e \in events : e.id = g.event_id

\* C28: a request changes a guest's check_in_status or rsvp_status only when
\* its user is the organizer of the event the guest belongs to, or an admin.
C28_OnlyOwnEventsGuests ==
    [][\A g \in guests, h \in guests' :
          (/\ g.id = h.id
           /\ \/ g.rsvp_status # h.rsvp_status
              \/ g.check_in_status # h.check_in_status) =>
              ~Denied(response'.user, EventOfGuest(g))]_vars

\* C29: no two committed guests hold the same ticket number, also when
\* manage_guests requests for one event are handled at the same time.
C29_TicketNumbersUnique ==
    \A g, h \in guests : g.ticket_number = h.ticket_number => g = h

\* two requests for one event read the same count: the commit of the second
\* was refused because the first had taken the ticket number
C29_Witness ==
    /\ response.handler = "manage_guests"
    /\ response.status = "error"
    /\ response.arg.conflict
    /\ \E g \in guests : g.ticket_number = response.arg.ticket_number

\* the notify calls among the calls of the last request
NotifyCalls(calls) == {i \in 1..Len(calls) : calls[i].channel = "notify"}

\* C30: stripe_webhook sets a payment to completed and makes its
\* payment_received notify call only when the signature verifies, the event
\* type is payment_intent.succeeded and a payment with that intent id exists;
\* a request whose payload or signature is invalid or whose event type is not
\* handled gets the 400 answer, changes no payment and notifies nobody.
C30_WebhookCompletesOnlyVerified ==
    [][RequestStep("stripe_webhook") =>
          LET arg == response'.arg
              rejected == ~arg.sigOk \/ arg.type = "customer.created"
          IN  /\ (payments' # payments \/ NotifyCalls(sent') # {}) =>
                    /\ arg.sigOk
                    /\ arg.type = "payment_intent.succeeded"
                    /\ \E x \in payments : /\ x.intent = arg.intent
                                           /\ payments' = (payments \ {x}) \cup
                                                  {[x EXCEPT !.status = "completed"]}
              /\ rejected =>
                    /\ response'.status = "bad_request"
                    /\ payments' = payments
                    /\ sent' = <<>>
                    /\ nextId' = nextId
                    /\ user_notifications' = user_notifications]_vars

\* a verified payment_intent.succeeded event completed the payment it names
\* and the organizer was notified
C30_Witness ==
    /\ response.handler = "stripe_webhook"
    /\ response.status = "success"
    /\ response.wrote
    /\ \E x \in payments : x.intent = response.arg.intent /\ x.status = "completed"
    /\ NotifyCalls(sent) # {}
====
